---- MODULE Spec2Model ----
(***************************************************************************)
(* The download orchestration engine of download_lectures.py: main, the    *)
(* batch scheduler download_subject, the item controller                   *)
(* download_single_video with download_video (ffmpeg) and                  *)
(* download_video_ytdlp (yt-dlp), and the failure ledger.                  *)
(*                                                                         *)
(* A URL is a sequence of tokens, a display name a sequence of tokens whose *)
(* last token may be the extension.  A file is its size in bytes, NoFile    *)
(* when it does not exist.  The fetch tool and the file system are the      *)
(* environment: every tool invocation ends in one of ToolOutcomes, every    *)
(* unlink of a destination file succeeds or raises.                         *)
(***************************************************************************)
EXTENDS Integers, Sequences, FiniteSets, TLC

\* ---------------------------------------------------------------- constants

MIN_FILE_SIZE == 1000000

MAX_RETRIES_ON_429 == 2

DURATION_TOLERANCE == 10

DELAY_BETWEEN_DOWNLOADS == 3

DEFAULT_CONCURRENT_FRAGMENTS == 4

PLACEHOLDER == "PASTE_YOUR_VIDEOMANIFEST_URL_HERE"

\* Path.exists() is false
NoFile == -1

\* None where a duration in seconds is expected
NoDuration == -1

\* ------------------------------------------------------------------- bounds

\* trim_url is applied to every URL of at most MaxUrlLen tokens
MaxUrlLen == 4

\* --parallel N is explored for N in 1..MaxWorkers
MaxWorkers == 2

\* number of invocations of the program, one after the other on the same disk
MaxRuns == 2

\* --------------------------------------------------------------- input data

Sizes == {MIN_FILE_SIZE - 1, MIN_FILE_SIZE, MIN_FILE_SIZE + 1}

FileStates == Sizes \cup {NoFile}

UrlA == <<"https://x/videomanifest?a=1", "&", "format=dash", "&", "b=2">>

UrlB == <<"https://x/videomanifest?b=1", "&", "format=dash">>

\* a fresh signed URL, as an operator pastes it into the ledger file
UrlC == <<"https://x/videomanifest?c=3", "&", "format=dash", "&", "tempauth=9">>

Video(n, u) == [name |-> n, url |-> u]

\* one collection: an item with a signed URL and an unfilled sample item
ManifestOne ==
    [keys   |-> <<"s1">>,
     videos |-> [s1 |-> << Video(<<"a">>, UrlA), Video(<<"p">>, <<PLACEHOLDER>>) >>]]

\* two collections: two items with signed URLs around one with an empty URL,
\* then a collection holding only an unfilled sample item
ManifestTwo ==
    [keys   |-> <<"s1", "s2">>,
     videos |-> [s1 |-> << Video(<<"a">>, UrlA), Video(<<"e">>, << >>),
                           Video(<<"b", ".mp4">>, UrlB) >>,
                 s2 |-> << Video(<<"p">>, <<PLACEHOLDER>>) >>]]

\* one collection of three items with signed URLs: more items than workers
ManifestThree ==
    [keys   |-> <<"s1">>,
     videos |-> [s1 |-> << Video(<<"a">>, UrlA), Video(<<"b", ".mp4">>, UrlB),
                           Video(<<"c">>, UrlA) >>]]

\* one collection whose two items differ in the display name only by ".mp4"
ManifestSameFile ==
    [keys   |-> <<"s1">>,
     videos |-> [s1 |-> << Video(<<"a">>, UrlA),
                           Video(<<"a", ".mp4">>, UrlB) >>]]

Manifests == {ManifestOne, ManifestTwo, ManifestThree, ManifestSameFile}

\* ------------------------------------------------------------------ helpers

Range(s) == {s[i] : i \in DOMAIN s}

\* str.find: the first position at which pat occurs in s, 0 when it does not
Find(s, pat) ==
    LET hits == {i \in 1..(Len(s) - Len(pat) + 1) : SubSeq(s, i, i + Len(pat) - 1) = pat}
    IN  IF hits = {} THEN 0 ELSE CHOOSE i \in hits : \A j \in hits : i <= j

\* faulty variant: only "&format=dash" is looked for
trim_url_format_marker_only(url) ==
    LET format_marker == <<"&", "format=dash">>
    IN  IF Find(url, format_marker) # 0
        THEN SubSeq(url, 1, Find(url, format_marker) + Len(format_marker) - 1)
        ELSE url

trim_url(url) ==
    LET format_marker == <<"&", "format=dash">>
        alt_marker    == <<"format=dash">>
    IN  IF Find(url, format_marker) # 0
        THEN SubSeq(url, 1, Find(url, format_marker) + Len(format_marker) - 1)
        ELSE IF Find(url, alt_marker) # 0
        THEN SubSeq(url, 1, Find(url, alt_marker) + Len(alt_marker) - 1)
        ELSE url

\* "if not name.endswith('.mp4'): name = f'{name}.mp4'"
with_mp4(name) ==
    IF Len(name) > 0 /\ name[Len(name)] = ".mp4" THEN name ELSE name \o <<".mp4">>

\* output_path = lectures_dir / name, lectures_dir = BASE_DIR / subject / "Lectures"
output_path(subject, name) == <<subject, with_mp4(name)>>

PathsOf(m) ==
    UNION { {output_path(s, m.videos[s][j].name) : j \in DOMAIN m.videos[s]} :
            s \in Range(m.keys) }

\* ------------------------------------------------------------------- state

VARIABLES
    manifest,               \* manifest_urls.json, never written by the program
    files,                  \* the destination files: output path -> size or NoFile
    FAILED_LOG,             \* failed_downloads.json: [exists, failed]
    runs,                   \* invocations of the program started so far
    phase,                  \* where the program is, see Phases
    args,                   \* this run: [retry, parallel, downloader, all, tool]
    retry_map,              \* previous_failures as loaded by a --retry run
    subjects_to_process,    \* collections main has still to visit
    subject,                \* the collection download_subject works on
    retry_only,             \* download_subject's retry_only (<< >> for None)
    task,                   \* download_args with each worker's locals
    success_count,          \* download_subject's counters
    fail_count,
    total_success,          \* main's counters
    total_fail,
    total_fetches,          \* tool invocations of this run (observation)
    failed_downloads,       \* the global in-memory ledger
    failed_downloads_lock,  \* 0 when free, else the position of the holder
    prev_clean,             \* the run before was a full normal run with tool "ok"
    ledger_writes,          \* open(FAILED_LOG, 'w') calls of this run (observation)
    call,                   \* a helper function called on its own: fn and
                            \* its arguments
    ret,                    \* what that call returned
    captured_urls,          \* extract_manifest_urls.py: the captured list
    seen_urls,              \* its set of URLs already captured
    current_subject,        \* the collection the captures are saved under
    lock,                   \* threading.Lock: TRUE while request holds it
    MANIFEST_FILE,          \* manifest_urls.json as the capture tool keeps it
    flow,                   \* the proxy thread inside ManifestCapture.request
    console                 \* the main thread inside interactive_mode

\* the state of the program
progvars == <<manifest, files, FAILED_LOG, runs, phase, args, retry_map,
              subjects_to_process, subject, retry_only, task, success_count,
              fail_count, total_success, total_fail, total_fetches,
              failed_downloads, failed_downloads_lock, prev_clean,
              ledger_writes>>

\* the state of the capture tool
capvars == <<captured_urls, seen_urls, current_subject, lock, MANIFEST_FILE,
             flow, console>>

vars == <<capvars, call, ret, ledger_writes, manifest, files, FAILED_LOG, runs, phase, args, retry_map,
          subjects_to_process, subject, retry_only, task, success_count,
          fail_count, total_success, total_fail, total_fetches,
          failed_downloads, failed_downloads_lock, prev_clean>>

\* ------------------------------------------------------------ the fetch tool

Outcome(k, i, o) == [kind |-> k, ind |-> i, out |-> o]

NoCall == Outcome("none", "none", NoFile)

\* what the output of a failed tool holds: a rate-limit indicator (429,
\* "too many requests"), an auth indicator (401, 403, forbidden,
\* unauthorized), both or neither
Indicators == {"none", "rate", "auth", "both"}

HasRate(ind) == ind \in {"rate", "both"}

HasAuth(ind) == ind \in {"auth", "both"}

\* subprocess.run(cmd, timeout=...) returns exit code 0 or not 0, or raises
\* TimeoutExpired, FileNotFoundError or another error; out is the destination
\* file the tool leaves behind
AnyOutcomes ==
    {Outcome("exit0", "none", o) : o \in FileStates} \cup
    {Outcome("exit1", i, o) : i \in Indicators, o \in FileStates} \cup
    {Outcome("timeout", "none", o) : o \in FileStates} \cup
    {Outcome("error", "none", o) : o \in FileStates} \cup
    {Outcome("notfound", "none", NoFile)}

\* the tool of a run is unconstrained ("any") or one of the stubs: always
\* succeeding, succeeding or failing cleanly, always rate limited, failing in
\* copy mode and succeeding in re-encode mode, not installed
Tools == {"any", "ok", "flaky", "rate", "copyfail", "missing"}

ToolOutcomes(tool, use_reencode) ==
    CASE tool = "any"      -> AnyOutcomes
      [] tool = "ok"       -> {Outcome("exit0", "none", o) :
                                 o \in {MIN_FILE_SIZE, MIN_FILE_SIZE + 1}}
      [] tool = "flaky"    -> {Outcome("exit0", "none", MIN_FILE_SIZE + 1),
                               Outcome("exit1", "none", NoFile)}
      [] tool = "rate"     -> {Outcome("exit1", "rate", NoFile)}
      [] tool = "copyfail" -> IF use_reencode
                              THEN {Outcome("exit0", "none", MIN_FILE_SIZE + 1)}
                              ELSE {Outcome("exit1", "none", NoFile)}
      [] tool = "missing"  -> {Outcome("notfound", "none", NoFile)}

\* the unconstrained tool is explored on the one-item manifest in the first
\* run (later runs start from every disk and ledger it can leave and use the
\* stubs, from the third run on the two that succeed or fail cleanly); on
\* the manifest of two collections the stubs that succeed, fail cleanly or
\* are not installed; the always succeeding one on the other manifests
ToolsFor(m) ==
    IF m = ManifestOne
    THEN (IF runs = 0 THEN Tools
          ELSE IF runs = 1 THEN Tools \ {"any"}
          ELSE {"ok", "flaky"})
    ELSE IF m = ManifestTwo
    THEN (IF runs <= 1 THEN {"ok", "flaky", "missing"} ELSE {"ok", "flaky"})
    ELSE {"ok"}

\* --downloader: both are explored in the first two runs, the later runs use
\* ffmpeg
DownloadersFor(m) ==
    IF runs >= 2 THEN {"ffmpeg"} ELSE {"ffmpeg", "ytdlp"}

\* ------------------------------------------------------ the item controller

\* the locals of one call of download_single_video
NewTask(v) ==
    [video |-> v, pc |-> "queued", url |-> << >>, use_reencode |-> FALSE,
     retry_count |-> 0, result |-> "-", error |-> "",
     \* observations: the destination file found at the start, the mode of
     \* every tool invocation, the 429 sleeps, the last outcome of the tool
     found |-> NoFile, calls |-> << >>, sleeps |-> 0, last |-> NoCall]

\* "return True" / "return False" of the downloader, back in
\* download_single_video, which then sleeps DELAY_BETWEEN_DOWNLOADS
return_value(t, b) ==
    [t EXCEPT !.pc = IF DELAY_BETWEEN_DOWNLOADS > 0 THEN "delay" ELSE "ret",
              !.result = b]

\* "with failed_downloads_lock: failed_downloads.append({...}); return False"
record_failure(t, error_msg) == [t EXCEPT !.pc = "lockwait", !.error = error_msg]

\* an error that leaves download_single_video
raised(t) == [t EXCEPT !.pc = "raised"]

\* subprocess.run(cmd, ...) is called
launch(t, mode) == [t EXCEPT !.pc = "run", !.calls = Append(@, mode)]

\* faulty variant: the existing file is never trusted, it is removed and the
\* tool is run
existing_file_check_always_fetches(t, f, unlink_ok, mode) ==
    IF f # NoFile /\ ~unlink_ok
    THEN [t |-> raised(t), f |-> f]
    ELSE [t |-> launch(t, mode), f |-> NoFile]

\* the head of download_video and of download_video_ytdlp: skip an existing
\* file above the floor, remove any other existing file, then run the tool
existing_file_check(t, f, unlink_ok, mode) ==
    IF f # NoFile /\ f > MIN_FILE_SIZE
    THEN [t |-> return_value(t, "True"), f |-> f]
    ELSE IF f # NoFile /\ ~unlink_ok
    THEN [t |-> raised(t), f |-> f]
    ELSE [t |-> launch(t, mode), f |-> NoFile]

\* download_video up to subprocess.run
download_video_head(t, f, unlink_ok) ==
    existing_file_check(t, f, unlink_ok,
                        IF t.use_reencode THEN "reencode" ELSE "copy")

\* download_video_ytdlp up to subprocess.run
download_video_ytdlp_head(t, f, unlink_ok) ==
    existing_file_check(t, f, unlink_ok, "ytdlp")

downloader_head(downloader, t, f, unlink_ok) ==
    IF downloader = "ytdlp"
    THEN download_video_ytdlp_head(t, f, unlink_ok)
    ELSE download_video_head(t, f, unlink_ok)

\* "if result.returncode == 0": the file the tool left is checked
returncode_zero(t, o, unlink_ok, unlink2_ok) ==
    IF o.out = NoFile
    THEN [t |-> return_value(t, "False"), f |-> NoFile]
    ELSE IF o.out < MIN_FILE_SIZE
    THEN IF unlink_ok
         THEN [t |-> return_value(t, "False"), f |-> NoFile]
         \* the unlink raised inside the try: "except Exception" unlinks again
         ELSE IF unlink2_ok
         THEN [t |-> record_failure(t, "exception"), f |-> NoFile]
         ELSE [t |-> raised(t), f |-> o.out]
    ELSE [t |-> return_value(t, "True"), f |-> o.out]

\* "except subprocess.TimeoutExpired" and "except Exception"
except_handler(t, o, unlink_ok, error_msg) ==
    IF o.out # NoFile /\ ~unlink_ok
    THEN [t |-> raised(t), f |-> o.out]
    ELSE [t |-> record_failure(t, error_msg), f |-> NoFile]

\* the downloader runs as a recursive call of itself: after a 429 sleep or in
\* re-encode mode
nested(t) == t.use_reencode \/ t.retry_count > 0

\* "return download_video(...)" stands inside the caller's try: an error out
\* of the recursive call is caught by the "except Exception" of the calling
\* frame, which unlinks the file and records the failure; when that unlink
\* raises too (in every calling frame) the error leaves the downloader
caller_except(r, unlink_ok) ==
    IF r.t.pc # "raised" THEN r
    ELSE IF r.f # NoFile /\ ~unlink_ok THEN r
    ELSE [t |-> record_failure(r.t, "exception"), f |-> NoFile]

\* faulty variant: one re-attempt fewer
rate_limited_one_retry_fewer(t) ==
    IF t.retry_count < MAX_RETRIES_ON_429 - 1
    THEN [t EXCEPT !.pc = "sleep429", !.sleeps = @ + 1]
    ELSE record_failure(t, "rate")

\* faulty variant: one re-attempt more
rate_limited_one_retry_more(t) ==
    IF t.retry_count <= MAX_RETRIES_ON_429
    THEN [t EXCEPT !.pc = "sleep429", !.sleeps = @ + 1]
    ELSE record_failure(t, "rate")

\* 429: wait RETRY_DELAY_429 and call again, or give up
rate_limited(t) ==
    IF t.retry_count < MAX_RETRIES_ON_429
    THEN [t EXCEPT !.pc = "sleep429", !.sleeps = @ + 1]
    ELSE record_failure(t, "rate")

\* faulty variant: no escalation to re-encode mode
ffmpeg_failed_without_reencode(t, o) ==
    IF HasRate(o.ind) THEN rate_limited(t)
    ELSE IF HasAuth(o.ind) THEN record_failure(t, "auth")
    ELSE record_failure(t, "generic")

\* faulty variant: the auth indicator is not looked at
ffmpeg_failed_auth_unclassified(t, o) ==
    IF HasRate(o.ind) THEN rate_limited(t)
    ELSE IF ~t.use_reencode THEN [t EXCEPT !.pc = "sleepEsc"]
    ELSE record_failure(t, "generic")

\* the non-zero exit of ffmpeg, classified on its stderr
ffmpeg_failed(t, o) ==
    IF HasRate(o.ind) THEN rate_limited(t)
    ELSE IF HasAuth(o.ind) THEN record_failure(t, "auth")
    ELSE IF ~t.use_reencode THEN [t EXCEPT !.pc = "sleepEsc"]
    ELSE record_failure(t, "generic")

\* the non-zero exit of yt-dlp, classified on stderr + stdout
ytdlp_failed(t, o) ==
    IF HasRate(o.ind) THEN rate_limited(t)
    ELSE IF HasAuth(o.ind) THEN record_failure(t, "auth")
    ELSE record_failure(t, "generic")

\* download_video from the return of subprocess.run on
download_video(t, o, unlink_ok, unlink2_ok) ==
    LET t1 == [t EXCEPT !.last = o]
    IN  CASE o.kind = "exit0"    -> returncode_zero(t1, o, unlink_ok, unlink2_ok)
          [] o.kind = "exit1"    -> [t |-> ffmpeg_failed(t1, o), f |-> o.out]
          [] o.kind = "timeout"  -> except_handler(t1, o, unlink_ok, "timeout")
          [] o.kind = "notfound" -> [t |-> return_value(t1, "False"), f |-> o.out]
          [] o.kind = "error"    -> except_handler(t1, o, unlink_ok, "exception")

\* download_video_ytdlp from the return of subprocess.run on
download_video_ytdlp(t, o, unlink_ok, unlink2_ok) ==
    LET t1 == [t EXCEPT !.last = o]
    IN  CASE o.kind = "exit0"    -> returncode_zero(t1, o, unlink_ok, unlink2_ok)
          [] o.kind = "exit1"    -> [t |-> ytdlp_failed(t1, o), f |-> o.out]
          [] o.kind = "timeout"  -> except_handler(t1, o, unlink_ok, "timeout")
          [] o.kind = "notfound" -> [t |-> return_value(t1, "False"), f |-> o.out]
          [] o.kind = "error"    -> except_handler(t1, o, unlink_ok, "exception")

\* faulty variant: the placeholder is taken for a URL
no_valid_url_empty_only(url) == url = << >>

\* "if not url or url == PASTE_YOUR_VIDEOMANIFEST_URL_HERE"
no_valid_url(url) == url = << >> \/ url = <<PLACEHOLDER>>

\* download_single_video up to the first tool invocation
download_single_video(t, f, retry, downloader, unlink_ok) ==
    LET t0 == [t EXCEPT !.found = f]
    IN  IF no_valid_url(t.video.url)
        THEN [t |-> [t0 EXCEPT !.pc = "ret", !.result = "None"], f |-> f]
        ELSE IF retry /\ f # NoFile /\ ~unlink_ok
        THEN [t |-> raised(t0), f |-> f]
        ELSE downloader_head(downloader,
                             [t0 EXCEPT !.url = trim_url(t.video.url)],
                             IF retry THEN NoFile ELSE f, unlink_ok)

\* ---------------------------------------------------------------- the ledger

NoLog == [exists |-> FALSE, failed |-> << >>]

FailureRecord(subj, name, error_msg) ==
    [subject |-> subj, name |-> name, url |-> << >>, error |-> error_msg]

\* save_failed_downloads: nothing is written for an empty list
save_failed_downloads(log, failed) ==
    IF failed # << >> THEN [exists |-> TRUE, failed |-> failed] ELSE log

\* load_failed_downloads
load_failed_downloads(log) == IF ~log.exists THEN << >> ELSE log.failed

\* ------------------------------------------------------------------- main

Phases == {"idle", "returned", "main", "subject", "ended", "crashed"}

Stopped == {"idle", "returned", "ended", "crashed"}

\* the keys of retry_map, in the order main inserts them
RECURSIVE retry_subjects(_)
retry_subjects(failures) ==
    IF failures = << >> THEN << >>
    ELSE LET rest == retry_subjects(SubSeq(failures, 1, Len(failures) - 1))
             subj == failures[Len(failures)].subject
         IN  IF subj \in Range(rest) THEN rest ELSE Append(rest, subj)

\* retry_map[subj]
retry_data(failures, subj) ==
    LET hits == SelectSeq(failures, LAMBDA r : r.subject = subj)
    IN  [i \in DOMAIN hits |-> [name |-> hits[i].name, url |-> hits[i].url]]

retry_names(failures, subj) ==
    LET rd == retry_data(failures, subj) IN [i \in DOMAIN rd |-> rd[i].name]

\* faulty variant: one entry per ledger record, the search does not stop at
\* the first record naming the item
videos_to_use_every_record(failures, subj) ==
    LET rd   == retry_data(failures, subj)
        hits == SelectSeq(rd, LAMBDA r :
                    r.name \in {v.name : v \in Range(manifest.videos[subj])})
    IN  [i \in DOMAIN hits |->
            IF hits[i].url # << >>
            THEN Video(hits[i].name, hits[i].url)
            ELSE CHOOSE v \in Range(manifest.videos[subj]) : v.name = hits[i].name]

\* faulty variant: the replacement URL of the ledger is not looked at
videos_to_use_manifest_only(failures, subj) ==
    LET rd == retry_data(failures, subj)
    IN  SelectSeq(manifest.videos[subj],
                  LAMBDA v : v.name \in {rd[i].name : i \in DOMAIN rd})

\* videos_to_use: the manifest items named in the ledger, each with the
\* replacement URL of its first ledger entry when that is not empty
videos_to_use(failures, subj) ==
    LET rd     == retry_data(failures, subj)
        named  == SelectSeq(manifest.videos[subj],
                            LAMBDA v : v.name \in {rd[i].name : i \in DOMAIN rd})
        first(v) == rd[CHOOSE i \in DOMAIN rd :
                          /\ rd[i].name = v.name
                          /\ \A j \in DOMAIN rd : rd[j].name = v.name => i <= j]
    IN  [i \in DOMAIN named |->
            IF first(named[i]).url # << >>
            THEN Video(named[i].name, first(named[i]).url)
            ELSE named[i]]

get_available_subjects(m) ==
    SelectSeq(m.keys, LAMBDA k : m.videos[k] # << >>)

\* no two records of the ledger name the same item
NamedOnce(failed) ==
    \A i, j \in DOMAIN failed :
        (failed[i].subject = failed[j].subject /\ failed[i].name = failed[j].name)
        => i = j

\* the ledger file is not as the program wrote it
Edited(log) ==
    \/ ~NamedOnce(log.failed)
    \/ \E i \in DOMAIN log.failed : log.failed[i].url # << >>

\* --parallel N: every N up to MaxWorkers in the first two runs, then the
\* sequential loop and the largest pool
PoolSizes == IF runs >= 2 THEN {1, MaxWorkers} ELSE 1..MaxWorkers

\* main up to the loop over the collections
RunStart ==
    /\ phase \in Stopped
    /\ runs < MaxRuns
    /\ \E retry \in BOOLEAN, par \in PoolSizes,
          dl \in DownloadersFor(manifest), tool \in ToolsFor(manifest),
          sel \in {"ALL"} \cup Range(get_available_subjects(manifest)),
          available \in BOOLEAN :
        LET previous_failures == load_failed_downloads(FAILED_LOG)
            go == available /\ (retry => previous_failures # << >>)
        IN  /\ retry => sel = "ALL"
            \* the operator edits the ledger to retry: the run that follows an
            \* edit is explored as a retry run
            /\ Edited(FAILED_LOG) => retry
            /\ manifest \notin Manifests => retry
            /\ ~available => (sel = "ALL" /\ ~retry)
            /\ args' = [retry |-> retry, parallel |-> par, downloader |-> dl,
                        all |-> sel = "ALL", tool |-> tool]
            /\ phase' = IF go THEN "main" ELSE "returned"
            /\ retry_map' = IF go /\ retry THEN previous_failures ELSE << >>
            /\ subjects_to_process' =
                 IF ~go THEN << >>
                 ELSE IF retry THEN retry_subjects(previous_failures)
                 ELSE IF sel = "ALL" THEN manifest.keys ELSE <<sel>>
    /\ runs' = runs + 1
    /\ prev_clean' = (phase = "ended" /\ ~args.retry /\ args.all /\ args.tool = "ok")
    /\ failed_downloads' = << >>
    /\ failed_downloads_lock' = 0
    /\ task' = << >>
    /\ subject' = ""
    /\ retry_only' = << >>
    /\ success_count' = 0
    /\ fail_count' = 0
    /\ total_success' = 0
    /\ total_fail' = 0
    /\ total_fetches' = 0
    /\ ledger_writes' = 0
    /\ UNCHANGED <<capvars, call, ret, manifest, files, FAILED_LOG>>

\* one turn of "for subj in subjects_to_process" up to the dispatch of
\* download_subject, which returns (0, 0) at once when nothing is to retry
BeginSubject ==
    /\ phase = "main"
    /\ subjects_to_process # << >>
    /\ LET subj   == Head(subjects_to_process)
           known  == subj \in Range(manifest.keys) /\ manifest.videos[subj] # << >>
           names  == IF args.retry THEN retry_names(retry_map, subj) ELSE << >>
           videos == IF args.retry THEN videos_to_use(retry_map, subj)
                     ELSE manifest.videos[subj]
           videos_to_download ==
               IF names # << >>
               THEN SelectSeq(videos, LAMBDA v : v.name \in Range(names))
               ELSE videos
       IN  /\ subjects_to_process' = Tail(subjects_to_process)
           /\ IF known /\ videos_to_download # << >>
              THEN /\ phase' = "subject"
                   /\ subject' = subj
                   /\ retry_only' = names
                   /\ task' = [i \in DOMAIN videos_to_download |->
                                  NewTask(videos_to_download[i])]
              ELSE UNCHANGED <<phase, subject, retry_only, task>>
    /\ success_count' = 0
    /\ fail_count' = 0
    /\ UNCHANGED <<capvars, call, ret, ledger_writes, manifest, files, FAILED_LOG, runs, args, retry_map,
                   total_success, total_fail, total_fetches, failed_downloads,
                   failed_downloads_lock, prev_clean>>

\* ------------------------------------------------------- the batch scheduler

Path(k) == output_path(subject, task[k].video.name)

Running == {"run", "sleep429", "sleepEsc", "lockwait", "locked", "delay"}

InFlight == {k \in DOMAIN task : task[k].pc \in Running}

\* faulty variant: every item is started as soon as the ones before it are
may_start_at_once(k) == \A j \in 1..(k - 1) : task[j].pc # "queued"

\* the sequential loop calls download_single_video for one item after the
\* other; the pool starts the submitted items in order, on a free worker
may_start(k) ==
    /\ \A j \in 1..(k - 1) : task[j].pc # "queued"
    /\ IF args.parallel > 1
       THEN Cardinality(InFlight) < args.parallel
       ELSE \A j \in 1..(k - 1) : task[j].pc = "done"

Step(k, r) ==
    /\ task' = [task EXCEPT ![k] = r.t]
    /\ files' = [files EXCEPT ![Path(k)] = r.f]
    /\ total_fetches' = total_fetches + (Len(r.t.calls) - Len(task[k].calls))

WorkerFrame ==
    UNCHANGED <<capvars, call, ret, ledger_writes, manifest, FAILED_LOG, runs, phase, args, retry_map,
                subjects_to_process, subject, retry_only, success_count,
                fail_count, total_success, total_fail, failed_downloads,
                failed_downloads_lock, prev_clean>>

\* a worker (or the loop) calls download_single_video(args)
Start(k) ==
    /\ phase = "subject"
    /\ task[k].pc = "queued"
    /\ may_start(k)
    /\ \E unlink_ok \in BOOLEAN :
         Step(k, download_single_video(task[k], files[Path(k)],
                                       retry_only # << >>, args.downloader,
                                       unlink_ok))
    /\ WorkerFrame

\* subprocess.run returns or raises, and the downloader handles it
ToolReturns(k) ==
    /\ phase = "subject"
    /\ task[k].pc = "run"
    /\ \E o \in ToolOutcomes(args.tool, task[k].use_reencode),
          unlink_ok \in BOOLEAN, unlink2_ok \in BOOLEAN, unlink3_ok \in BOOLEAN :
         LET r == IF args.downloader = "ytdlp"
                  THEN download_video_ytdlp(task[k], o, unlink_ok, unlink2_ok)
                  ELSE download_video(task[k], o, unlink_ok, unlink2_ok)
         IN  Step(k, IF nested(task[k]) THEN caller_except(r, unlink3_ok) ELSE r)
    /\ WorkerFrame

\* faulty variant: the re-attempt is made without use_reencode, in copy mode
RetryAfter429_in_copy_mode(k) ==
    /\ phase = "subject"
    /\ task[k].pc = "sleep429"
    /\ \E unlink_ok \in BOOLEAN, unlink2_ok \in BOOLEAN :
         Step(k, caller_except(
                     downloader_head(args.downloader,
                                     [task[k] EXCEPT !.retry_count = @ + 1,
                                                     !.use_reencode = FALSE],
                                     files[Path(k)], unlink_ok),
                     unlink2_ok))
    /\ WorkerFrame

\* time.sleep(RETRY_DELAY_429) is over: the downloader calls itself with
\* retry_count + 1
RetryAfter429(k) ==
    /\ phase = "subject"
    /\ task[k].pc = "sleep429"
    /\ \E unlink_ok \in BOOLEAN, unlink2_ok \in BOOLEAN :
         Step(k, caller_except(
                     downloader_head(args.downloader,
                                     [task[k] EXCEPT !.retry_count = @ + 1],
                                     files[Path(k)], unlink_ok),
                     unlink2_ok))
    /\ WorkerFrame

\* time.sleep(2) is over: download_video calls itself with use_reencode=True,
\* retry_count=0
Reencode(k) ==
    /\ phase = "subject"
    /\ task[k].pc = "sleepEsc"
    /\ \E unlink_ok \in BOOLEAN, unlink2_ok \in BOOLEAN :
         Step(k, caller_except(
                     download_video_head([task[k] EXCEPT !.use_reencode = TRUE,
                                                         !.retry_count = 0],
                                         files[Path(k)], unlink_ok),
                     unlink2_ok))
    /\ WorkerFrame

LedgerFrame ==
    UNCHANGED <<capvars, call, ret, ledger_writes, manifest, files, FAILED_LOG, runs, phase, args, retry_map,
                subjects_to_process, subject, retry_only, success_count,
                fail_count, total_success, total_fail, total_fetches, prev_clean>>

\* faulty variant: the critical section is entered without waiting for the lock
Acquire_without_lock(k) ==
    /\ phase = "subject"
    /\ task[k].pc = "lockwait"
    /\ failed_downloads_lock' = k
    /\ task' = [task EXCEPT ![k].pc = "locked"]
    /\ UNCHANGED failed_downloads
    /\ LedgerFrame

\* "with failed_downloads_lock:" is entered
Acquire(k) ==
    /\ phase = "subject"
    /\ task[k].pc = "lockwait"
    /\ failed_downloads_lock = 0
    /\ failed_downloads_lock' = k
    /\ task' = [task EXCEPT ![k].pc = "locked"]
    /\ UNCHANGED failed_downloads
    /\ LedgerFrame

\* failed_downloads.append({...}), the lock is left, "return False"
AppendFailure(k) ==
    /\ phase = "subject"
    /\ task[k].pc = "locked"
    /\ failed_downloads' =
         Append(failed_downloads,
                FailureRecord(subject, task[k].video.name, task[k].error))
    /\ failed_downloads_lock' = 0
    /\ task' = [task EXCEPT ![k] = return_value(task[k], "False")]
    /\ LedgerFrame

\* time.sleep(DELAY_BETWEEN_DOWNLOADS) is over: "return (success, original_name)"
Finish(k) ==
    /\ phase = "subject"
    /\ task[k].pc = "delay"
    /\ task' = [task EXCEPT ![k].pc = "ret"]
    /\ UNCHANGED <<failed_downloads, failed_downloads_lock>>
    /\ LedgerFrame

\* the counting of one returned outcome; an exception out of a pool worker
\* is counted as a failure
count(t, sc, fc) ==
    CASE t.pc = "raised"     -> [success |-> sc, fail |-> fc + 1]
      [] t.result = "None"   -> [success |-> sc, fail |-> fc]
      [] t.result = "True"   -> [success |-> sc + 1, fail |-> fc]
      [] t.result = "False"  -> [success |-> sc, fail |-> fc + 1]

Collect(k) ==
    /\ phase = "subject"
    /\ task[k].pc = "ret" \/ (task[k].pc = "raised" /\ args.parallel > 1)
    /\ LET c == count(task[k], success_count, fail_count)
       IN  /\ success_count' = c.success
           /\ fail_count' = c.fail
    /\ task' = [task EXCEPT ![k].pc = "done"]
    /\ UNCHANGED <<capvars, call, ret, ledger_writes, manifest, files, FAILED_LOG, runs, phase, args, retry_map,
                   subjects_to_process, subject, retry_only, total_success,
                   total_fail, total_fetches, failed_downloads,
                   failed_downloads_lock, prev_clean>>

\* in the sequential loop nothing catches the error: the program dies
Crash(k) ==
    /\ phase = "subject"
    /\ task[k].pc = "raised"
    /\ args.parallel = 1
    /\ phase' = "crashed"
    /\ UNCHANGED <<capvars, call, ret, ledger_writes, manifest, files, FAILED_LOG, runs, args, retry_map,
                   subjects_to_process, subject, retry_only, task,
                   success_count, fail_count, total_success, total_fail,
                   total_fetches, failed_downloads, failed_downloads_lock,
                   prev_clean>>

\* faulty variant: the ledger file is saved whenever a collection ends with
\* failures, and again at the end of the run
EndSubject_saves_ledger ==
    /\ phase = "subject"
    /\ \A k \in DOMAIN task : task[k].pc = "done"
    /\ phase' = "main"
    /\ total_success' = total_success + success_count
    /\ total_fail' = total_fail + fail_count
    /\ FAILED_LOG' = save_failed_downloads(FAILED_LOG, failed_downloads)
    /\ ledger_writes' = ledger_writes + IF failed_downloads # << >> THEN 1 ELSE 0
    /\ UNCHANGED <<capvars, call, ret, manifest, files, runs, args, retry_map,
                   subjects_to_process, subject, retry_only, task,
                   success_count, fail_count, total_fetches, failed_downloads,
                   failed_downloads_lock, prev_clean>>

\* "return success_count, fail_count" and main's totals
EndSubject ==
    /\ phase = "subject"
    /\ \A k \in DOMAIN task : task[k].pc = "done"
    /\ phase' = "main"
    /\ total_success' = total_success + success_count
    /\ total_fail' = total_fail + fail_count
    /\ UNCHANGED <<capvars, call, ret, ledger_writes, manifest, files, FAILED_LOG, runs, args, retry_map,
                   subjects_to_process, subject, retry_only, task,
                   success_count, fail_count, total_fetches, failed_downloads,
                   failed_downloads_lock, prev_clean>>

\* faulty variant: a clean retry run leaves the ledger file
end_of_run_never_clears(log, failed, fails, retry) ==
    IF fails > 0 THEN save_failed_downloads(log, failed) ELSE log

\* faulty variant: every clean run removes the ledger file
end_of_run_clears_after_any_run(log, failed, fails, retry) ==
    IF fails > 0 THEN save_failed_downloads(log, failed)
    ELSE IF log.exists THEN NoLog
    ELSE log

\* main after the loop: the ledger file is written or removed
end_of_run(log, failed, fails, retry) ==
    IF fails > 0 THEN save_failed_downloads(log, failed)
    ELSE IF retry /\ log.exists THEN NoLog
    ELSE log

\* how often that opens the ledger file for writing: save_failed_downloads
\* is called when the run had failures and writes when the ledger has records
opens_for_writing(failed, fails) ==
    IF fails > 0 /\ failed # << >> THEN 1 ELSE 0

EndRun ==
    /\ phase = "main"
    /\ subjects_to_process = << >>
    /\ phase' = "ended"
    /\ FAILED_LOG' = end_of_run(FAILED_LOG, failed_downloads, total_fail, args.retry)
    /\ ledger_writes' = ledger_writes + opens_for_writing(failed_downloads, total_fail)
    /\ UNCHANGED <<capvars, call, ret, manifest, files, runs, args, retry_map, subjects_to_process,
                   subject, retry_only, task, success_count, fail_count,
                   total_success, total_fail, total_fetches, failed_downloads,
                   failed_downloads_lock, prev_clean>>

\* ------------------------------------------------------------- the operator

\* between two runs the operator edits failed_downloads.json: a fresh URL is
\* pasted into the empty "url" of a record, or a record is repeated
OperatorEdit ==
    /\ phase \in Stopped
    /\ runs < MaxRuns
    /\ FAILED_LOG.exists
    /\ \E i \in DOMAIN FAILED_LOG.failed :
         \/ /\ FAILED_LOG.failed[i].url = << >>
            /\ FAILED_LOG' = [FAILED_LOG EXCEPT !.failed[i].url = UrlC]
         \/ /\ NamedOnce(FAILED_LOG.failed)
            /\ FAILED_LOG' = [FAILED_LOG EXCEPT
                                 !.failed = Append(@, FAILED_LOG.failed[i])]
    /\ UNCHANGED <<capvars, call, ret, ledger_writes, manifest, files, runs, phase, args, retry_map,
                   subjects_to_process, subject, retry_only, task,
                   success_count, fail_count, total_success, total_fail,
                   total_fetches, failed_downloads, failed_downloads_lock,
                   prev_clean>>

\* s without its j-th element
Remove(s, j) == SubSeq(s, 1, j - 1) \o SubSeq(s, j + 1, Len(s))

\* between two runs the operator edits manifest_urls.json: an item the ledger
\* names is taken out of its collection, or its URL is blanked
ManifestEdit ==
    /\ phase \in Stopped
    /\ runs < MaxRuns
    /\ FAILED_LOG.exists
    /\ manifest \in Manifests
    /\ \E i \in DOMAIN FAILED_LOG.failed :
         LET subj == FAILED_LOG.failed[i].subject
         IN  \E j \in DOMAIN manifest.videos[subj] :
                /\ manifest.videos[subj][j].name = FAILED_LOG.failed[i].name
                /\ \/ manifest' = [manifest EXCEPT
                                      !.videos[subj] = Remove(@, j)]
                   \/ manifest' = [manifest EXCEPT
                                      !.videos[subj][j].url = << >>]
    /\ UNCHANGED <<capvars, call, ret, ledger_writes, files, FAILED_LOG, runs, phase, args, retry_map,
                   subjects_to_process, subject, retry_only, task,
                   success_count, fail_count, total_success, total_fail,
                   total_fetches, failed_downloads, failed_downloads_lock,
                   prev_clean>>

\* ------------------------------------------------------ the helper functions

UrlTokens == {"https://x/videomanifest?a=1", "&", "format=dash"}

Urls ==
    UNION {[1..n -> UrlTokens] : n \in 0..MaxUrlLen} \cup {UrlA, UrlB, UrlC}

\* Duration100Nano values: whole seconds in units of 100 ns
Ticks == {0, 10000000, 2000000000}

\* what json.loads returns: an object with one key, or an array
JsonDocs ==
    {[kind |-> "object", key |-> k, type |-> ty, val |-> d] :
        k \in {"Duration100Nano", "Other"}, ty \in {"number", "string"},
        d \in Ticks}
    \cup {[kind |-> "array", key |-> "", type |-> "number", val |-> 0]}

\* the text after "altManifestMetadata=" up to the next "&", by the way it was
\* made: percent-encoded or not, base64 or not, with 0..2 padding characters
\* left off, encoding JSON or other text
MetadataValues ==
    [quoted : BOOLEAN, base64 : BOOLEAN, stripped : 0..2, json : BOOLEAN,
     doc : JsonDocs]

\* a URL as extract_duration_from_url sees it
MetadataUrls == [marker : BOOLEAN, metadata : MetadataValues]

\* no function has been called on its own: the arguments a call does not take
\* keep these values
NoApply ==
    [fn |-> "none", url |-> <<>>,
     metadata_url |-> [marker |-> FALSE,
                       metadata |-> [quoted |-> FALSE, base64 |-> FALSE,
                                     stripped |-> 0, json |-> FALSE,
                                     doc |-> [kind |-> "array", key |-> "",
                                              type |-> "number", val |-> 0]]],
     filepath |-> NoFile, expected_duration |-> NoDuration,
     actual_duration |-> NoDuration,
     expected |-> [known |-> FALSE, ms |-> 0], downloader |-> "ffmpeg",
     use_reencode |-> FALSE, retry_count |-> 0,
     fragments |-> [from |-> "default", kind |-> "empty", n |-> 0]]

\* nothing has been returned: the parts a function does not return keep these
\* values
NoReturn ==
    [fn |-> "none", url |-> <<>>, duration |-> NoDuration, is_valid |-> FALSE,
     message |-> "", success |-> FALSE, file |-> NoFile, mismatch |-> FALSE,
     timeout_seconds |-> 0, exits |-> FALSE, num_fragments |-> 0]

\* trim_url(url) is called
ApplyTrimUrl ==
    /\ \E u \in Urls :
         /\ call' = [NoApply EXCEPT !.fn = "trim_url",
                                    !.url = u]
         /\ ret' = [NoReturn EXCEPT !.fn = "trim_url",
                                    !.url = trim_url(u)]
    /\ UNCHANGED <<progvars, capvars>>

\* trim_url(trim_url(url)) is called
ApplyTrimUrlTwice ==
    /\ \E u \in Urls :
         /\ call' = [NoApply EXCEPT !.fn = "trim_url twice",
                                    !.url = u]
         /\ ret' = [NoReturn EXCEPT !.fn = "trim_url twice",
                                    !.url = trim_url(trim_url(u))]
    /\ UNCHANGED <<progvars, capvars>>

\* urllib.parse.unquote
unquote(v) == [v EXCEPT !.quoted = FALSE]

\* "padding = 4 - len(metadata_b64) % 4; if padding != 4: += '=' * padding":
\* base64 text that lacks 1 or 2 padding characters gets them back
add_padding(v) == [v EXCEPT !.stripped = 0]

\* base64.b64decode(...).decode('utf-8') returns
b64decodes(v) == ~v.quoted /\ v.base64 /\ v.stripped = 0

\* extract_duration_from_url: NoDuration from "return None", also in
\* "except Exception"
extract_duration_from_url(url) ==
    IF ~url.marker THEN NoDuration
    ELSE LET metadata_b64 == add_padding(unquote(url.metadata))
             metadata     == metadata_b64.doc
         IN  IF ~b64decodes(metadata_b64) THEN NoDuration
             ELSE IF ~metadata_b64.json THEN NoDuration
             \* metadata.get of a value that is no dict raises
             ELSE IF metadata.kind # "object" THEN NoDuration
             \* metadata.get('Duration100Nano', 0)
             ELSE IF metadata.key # "Duration100Nano" THEN 0 \div 10000000
             \* the division of a value that is no number raises
             ELSE IF metadata.type # "number" THEN NoDuration
             ELSE metadata.val \div 10000000

\* extract_duration_from_url(url) is called
ApplyExtractDuration ==
    /\ \E u \in MetadataUrls :
         /\ call' = [NoApply EXCEPT !.fn = "extract_duration_from_url",
                                    !.metadata_url = u]
         /\ ret' = [NoReturn EXCEPT !.fn = "extract_duration_from_url",
                                    !.duration = extract_duration_from_url(u)]
    /\ UNCHANGED <<progvars, capvars>>

Abs(x) == IF x < 0 THEN 0 - x ELSE x

\* "if expected_duration:", "if actual_duration:"
truthy(duration) == duration # NoDuration /\ duration # 0

\* faulty variant: a file of exactly MIN_FILE_SIZE bytes is too small
validate_video_floor_exclusive(filepath, expected_duration, actual_duration) ==
    IF filepath = NoFile
    THEN [is_valid |-> FALSE, message |-> "File does not exist"]
    ELSE IF filepath <= MIN_FILE_SIZE
    THEN [is_valid |-> FALSE, message |-> "File too small"]
    ELSE IF truthy(expected_duration)
    THEN IF actual_duration = NoDuration
         THEN [is_valid |-> FALSE, message |-> "Could not read video duration"]
         ELSE IF Abs(actual_duration - expected_duration) > DURATION_TOLERANCE
         THEN [is_valid |-> FALSE, message |-> "Duration mismatch"]
         ELSE [is_valid |-> TRUE, message |-> "Valid duration"]
    ELSE [is_valid |-> TRUE, message |-> "Valid size"]

\* validate_video; actual_duration is what get_video_duration returns for
\* the file, NoDuration when ffprobe fails
validate_video(filepath, expected_duration, actual_duration) ==
    IF filepath = NoFile
    THEN [is_valid |-> FALSE, message |-> "File does not exist"]
    ELSE IF filepath < MIN_FILE_SIZE
    THEN [is_valid |-> FALSE, message |-> "File too small"]
    ELSE IF truthy(expected_duration)
    THEN IF actual_duration = NoDuration
         THEN [is_valid |-> FALSE, message |-> "Could not read video duration"]
         ELSE IF Abs(actual_duration - expected_duration) > DURATION_TOLERANCE
         THEN [is_valid |-> FALSE, message |-> "Duration mismatch"]
         ELSE [is_valid |-> TRUE, message |-> "Valid duration"]
    ELSE [is_valid |-> TRUE, message |-> "Valid size"]

\* the check of download_video and download_video_ytdlp after exit code 0,
\* with its duration part: the value returned, the file left, and whether a
\* duration mismatch was printed
post_download_check(filepath, expected_duration, actual_duration) ==
    IF filepath = NoFile
    THEN [success |-> FALSE, file |-> NoFile, mismatch |-> FALSE]
    ELSE IF filepath < MIN_FILE_SIZE
    THEN [success |-> FALSE, file |-> NoFile, mismatch |-> FALSE]
    ELSE [success |-> TRUE, file |-> filepath,
          mismatch |-> /\ truthy(expected_duration)
                       /\ truthy(actual_duration)
                       /\ Abs(actual_duration - expected_duration)
                             > DURATION_TOLERANCE]

\* durations in seconds, around one of 200 s and DURATION_TOLERANCE
Durations == {NoDuration, 0, 189, 190, 200, 210, 211}

\* validate_video(filepath, expected_duration) is called
ApplyValidateVideo ==
    /\ \E f \in FileStates, expected \in {NoDuration, 0, 200},
          actual \in Durations :
         /\ call' = [NoApply EXCEPT !.fn = "validate_video",
                                    !.filepath = f,
                                    !.expected_duration = expected,
                                    !.actual_duration = actual]
         /\ LET r == validate_video(f, expected, actual)
            IN  ret' = [NoReturn EXCEPT !.fn = "validate_video",
                                        !.is_valid = r.is_valid,
                                        !.message = r.message]
    /\ UNCHANGED <<progvars, capvars>>

\* the tool has exited with code 0 and the downloader checks its output
ApplyPostDownloadCheck ==
    /\ \E f \in FileStates, expected \in {NoDuration, 0, 200},
          actual \in Durations :
         /\ call' = [NoApply EXCEPT !.fn = "post_download_check",
                                    !.filepath = f,
                                    !.expected_duration = expected,
                                    !.actual_duration = actual]
         /\ LET r == post_download_check(f, expected, actual)
            IN  ret' = [NoReturn EXCEPT !.fn = "post_download_check",
                                        !.success = r.success,
                                        !.file = r.file,
                                        !.mismatch = r.mismatch]
    /\ UNCHANGED <<progvars, capvars>>

max(a, b) == IF a >= b THEN a ELSE b

min(a, b) == IF a <= b THEN a ELSE b

\* int(x) of a duration x given in milliseconds: the whole seconds, the
\* fraction dropped towards zero
int(ms) == IF ms >= 0 THEN ms \div 1000 ELSE 0 - ((0 - ms) \div 1000)

\* faulty variant: the hint is taken without the floor of 1800 seconds
timeout_seconds_hint_only(expected) ==
    IF expected.known /\ expected.ms # 0
    THEN int(expected.ms) + 600
    ELSE 1800

\* "timeout_seconds = max(1800, int(expected_duration) + 600)
\*  if expected_duration else 1800"; expected is what
\* extract_duration_from_url(original_url or url) returned: None (not known)
\* or a duration, here in milliseconds
timeout_seconds(expected) ==
    IF expected.known /\ expected.ms # 0
    THEN max(1800, int(expected.ms) + 600)
    ELSE 1800

\* expected durations in milliseconds, around the 1200 s at which the hint
\* starts to count
ExpectedMs == {-1500, 0, 500, 1199999, 1200000, 1200999, 1201000, 3600500}

Expected ==
    {[known |-> TRUE, ms |-> d] : d \in ExpectedMs}
    \cup {[known |-> FALSE, ms |-> 0]}

\* the attempts of one item: download_video(..., use_reencode, retry_count)
\* and download_video_ytdlp(..., retry_count), each of which computes the
\* timeout for its subprocess.run
Attempts ==
    {[downloader |-> "ffmpeg", use_reencode |-> r, retry_count |-> n] :
        r \in BOOLEAN, n \in 0..MAX_RETRIES_ON_429}
    \cup {[downloader |-> "ytdlp", use_reencode |-> FALSE, retry_count |-> n] :
            n \in 0..MAX_RETRIES_ON_429}

\* an attempt reaches "timeout_seconds = ..."
ApplyTimeoutSeconds ==
    /\ \E e \in Expected, a \in Attempts :
         /\ call' = [NoApply EXCEPT !.fn = "timeout_seconds",
                                    !.expected = e,
                                    !.downloader = a.downloader,
                                    !.use_reencode = a.use_reencode,
                                    !.retry_count = a.retry_count]
         /\ ret' = [NoReturn EXCEPT !.fn = "timeout_seconds",
                                    !.timeout_seconds = timeout_seconds(e)]
    /\ UNCHANGED <<progvars, capvars>>

\* faulty variant: only the upper end is enforced
clamp_upper_only(n) == min(16, n)

\* "max(1, min(16, n))"
clamp(n) == max(1, min(16, n))

\* what the operator gives for the fragment concurrency: with -f on the
\* command line (argparse type=int, default 4) or at the prompt of
\* select_downloader; nothing, an integer, or text that is no integer
FragmentInputs ==
    {[from |-> f, kind |-> "int", n |-> n] :
        f \in {"command line", "prompt"}, n \in {-5, 0, 1, 4, 16, 17, 1000}}
    \cup {[from |-> f, kind |-> k, n |-> 0] :
            f \in {"command line", "prompt"}, k \in {"empty", "text"}}

\* concurrent_fragments as main (-d ytdlp) or select_downloader (choice 1)
\* sets it, and whether the program exits instead: argparse ends the program
\* on -f with text that is no integer
concurrent_fragments(input) ==
    IF input.from = "command line"
    THEN CASE input.kind = "int"   -> [exits |-> FALSE, n |-> clamp(input.n)]
           \* "parser.add_argument('-f', ..., type=int, default=4)"
           [] input.kind = "empty" -> [exits |-> FALSE, n |-> clamp(4)]
           [] input.kind = "text"  -> [exits |-> TRUE, n |-> 0]
    ELSE CASE input.kind = "int"   -> [exits |-> FALSE, n |-> clamp(input.n)]
           [] input.kind = "empty" ->
                [exits |-> FALSE, n |-> DEFAULT_CONCURRENT_FRAGMENTS]
           [] input.kind = "text"  ->
                [exits |-> FALSE, n |-> DEFAULT_CONCURRENT_FRAGMENTS]

\* the operator's value reaches "-N", str(num_fragments) of an attempt of
\* download_video_ytdlp, which hands num_fragments on to its re-attempts
ApplyFragments ==
    /\ \E i \in FragmentInputs, n \in 0..MAX_RETRIES_ON_429 :
         /\ call' = [NoApply EXCEPT !.fn = "num_fragments",
                                    !.downloader = "ytdlp",
                                    !.retry_count = n,
                                    !.fragments = i]
         /\ ret' = [NoReturn EXCEPT !.fn = "num_fragments",
                                    !.exits = concurrent_fragments(i).exits,
                                    !.num_fragments =
                                        concurrent_fragments(i).n]
    /\ UNCHANGED <<progvars, capvars>>

\* ---------------------------------------------------------- the capture tool

\* extract_manifest_urls.py runs two threads on the same globals: the proxy
\* thread calls ManifestCapture.request for each request of the browser, one
\* call at a time, and the main thread runs interactive_mode. Each action
\* below is one statement of the code; the threads interleave between them.

\* a second signed URL of the item of UrlA
UrlA2 == <<"https://x/videomanifest?a=1", "&", "format=dash", "&", "tempauth=9">>

\* a request of the browser for something else
UrlPage == <<"https://x/page">>

\* the requests that pass through the proxy
CaptureRequests == {UrlA, UrlA2, UrlB, UrlPage}

\* "'videomanifest' in url"
is_videomanifest(url) ==
    \E i \in DOMAIN url :
        url[i] \in {"https://x/videomanifest?a=1", "https://x/videomanifest?b=1",
                    "https://x/videomanifest?c=3"}

\* trim_url of extract_manifest_urls.py: only "&format=dash" is looked for
capture_trim_url(url) ==
    LET format_marker == <<"&", "format=dash">>
    IN  IF Find(url, format_marker) # 0
        THEN SubSeq(url, 1, Find(url, format_marker) + Len(format_marker) - 1)
        ELSE url

\* what the operator types when asked for a subject name
SubjectInputs == {"", "s1"}

\* the keys manifest_urls.json can get; a key with no records is absent
CaptureSubjects == {"General", "AdvanceCyberSecurity", "s1"}

EmptyDoc == [s \in CaptureSubjects |-> << >>]

IdleFlow == [pc |-> "idle", trimmed |-> << >>]

\* interactive_mode between two statements: pc is the statement to come,
\* then is where save_results returns to, subject is the name typed, and
\* doc, existing_urls and i are the manifest, the set and the loop position
\* of save_results
AtConsole(pc, then, subj) ==
    [pc |-> pc, then |-> then, subject |-> subj, doc |-> EmptyDoc,
     existing_urls |-> {}, i |-> 0]

\* "url = flow.request.url ... trimmed = trim_url(url); with lock:"
Request ==
    /\ flow.pc = "idle"
    /\ console.pc # "exited"
    /\ \E url \in CaptureRequests :
         IF is_videomanifest(url)
         THEN /\ lock = FALSE
              /\ lock' = TRUE
              /\ flow' = [pc |-> "test", trimmed |-> capture_trim_url(url)]
         ELSE UNCHANGED <<lock, flow>>
    /\ UNCHANGED <<captured_urls, seen_urls, current_subject, MANIFEST_FILE,
                   console, progvars, call, ret>>

\* "if trimmed not in seen_urls:"
RequestTest ==
    /\ flow.pc = "test"
    /\ console.pc # "exited"
    /\ IF flow.trimmed \notin seen_urls
       THEN /\ flow' = [flow EXCEPT !.pc = "add"]
            /\ UNCHANGED lock
       ELSE /\ flow' = IdleFlow
            /\ lock' = FALSE
    /\ UNCHANGED <<captured_urls, seen_urls, current_subject, MANIFEST_FILE,
                   console, progvars, call, ret>>

\* "seen_urls.add(trimmed)"
RequestAdd ==
    /\ flow.pc = "add"
    /\ console.pc # "exited"
    /\ seen_urls' = seen_urls \cup {flow.trimmed}
    /\ flow' = [flow EXCEPT !.pc = "append"]
    /\ UNCHANGED <<captured_urls, current_subject, lock, MANIFEST_FILE,
                   console, progvars, call, ret>>

\* "captured_urls.append(trimmed)", the prints, and the lock is released
RequestAppend ==
    /\ flow.pc = "append"
    /\ console.pc # "exited"
    /\ captured_urls' = Append(captured_urls, flow.trimmed)
    /\ flow' = IdleFlow
    /\ lock' = FALSE
    /\ UNCHANGED <<seen_urls, current_subject, MANIFEST_FILE, console,
                   progvars, call, ret>>

\* "subject = input(...); current_subject = subject if subject else ..."
AskSubject ==
    /\ console.pc = "ask_subject"
    /\ \E name \in SubjectInputs :
         current_subject' = IF name # "" THEN name ELSE "AdvanceCyberSecurity"
    /\ console' = AtConsole("prompt", "prompt", "")
    /\ UNCHANGED <<captured_urls, seen_urls, lock, MANIFEST_FILE, flow,
                   progvars, call, ret>>

\* the command "subject": the name is asked for and, when there are captures,
\* whether to save them first
CmdSubject ==
    /\ console.pc = "prompt"
    /\ \E name \in SubjectInputs, save_choice \in {"y", "n"} :
         console' = IF name = "" THEN console
                    ELSE IF captured_urls # << >> /\ save_choice = "y"
                    THEN AtConsole("save", "switch", name)
                    ELSE AtConsole("switch", "prompt", name)
    /\ UNCHANGED <<captured_urls, seen_urls, current_subject, lock,
                   MANIFEST_FILE, flow, progvars, call, ret>>

\* "current_subject = subject"
SwitchSubject ==
    /\ console.pc = "switch"
    /\ current_subject' = console.subject
    /\ console' = AtConsole("reset_captured", "prompt", "")
    /\ UNCHANGED <<captured_urls, seen_urls, lock, MANIFEST_FILE, flow,
                   progvars, call, ret>>

\* the command "clear" and its "Are you sure?"
CmdClear ==
    /\ console.pc = "prompt"
    /\ \E sure \in {"y", "n"} :
         console' = IF sure = "y" THEN AtConsole("reset_captured", "prompt", "")
                    ELSE console
    /\ UNCHANGED <<captured_urls, seen_urls, current_subject, lock,
                   MANIFEST_FILE, flow, progvars, call, ret>>

\* "captured_urls = []", without the lock
ResetCaptured ==
    /\ console.pc = "reset_captured"
    /\ captured_urls' = << >>
    /\ console' = AtConsole("reset_seen", "prompt", "")
    /\ UNCHANGED <<seen_urls, current_subject, lock, MANIFEST_FILE, flow,
                   progvars, call, ret>>

\* "seen_urls = set()", without the lock
ResetSeen ==
    /\ console.pc = "reset_seen"
    /\ seen_urls' = {}
    /\ console' = AtConsole("prompt", "prompt", "")
    /\ UNCHANGED <<captured_urls, current_subject, lock, MANIFEST_FILE, flow,
                   progvars, call, ret>>

\* the command "save"
CmdSave ==
    /\ console.pc = "prompt"
    /\ console' = AtConsole("save", "prompt", "")
    /\ UNCHANGED <<captured_urls, seen_urls, current_subject, lock,
                   MANIFEST_FILE, flow, progvars, call, ret>>

\* the command "quit", the end of input and Ctrl-C: save_results, then the end
CmdQuit ==
    /\ console.pc = "prompt"
    /\ console' = AtConsole("save", "exit", "")
    /\ UNCHANGED <<captured_urls, seen_urls, current_subject, lock,
                   MANIFEST_FILE, flow, progvars, call, ret>>

\* save_results up to its loop: nothing to do for an empty list, else the
\* manifest is loaded and the URLs of the current subject are collected
SaveBegin ==
    /\ console.pc = "save"
    /\ console' = IF captured_urls = << >>
                  THEN AtConsole(console.then, "prompt", console.subject)
                  ELSE [console EXCEPT
                           !.pc = "save_loop",
                           !.doc = MANIFEST_FILE,
                           !.existing_urls =
                               {MANIFEST_FILE[current_subject][j].url :
                                  j \in DOMAIN MANIFEST_FILE[current_subject]},
                           !.i = 1]
    /\ UNCHANGED <<captured_urls, seen_urls, current_subject, lock,
                   MANIFEST_FILE, flow, progvars, call, ret>>

\* one turn of "for i, url in enumerate(captured_urls)"; the item is named
\* Lecture_NN by its position in the manifest, kept here as the number NN
SaveLoop ==
    /\ console.pc = "save_loop"
    /\ console' =
         IF console.i > Len(captured_urls)
         THEN [console EXCEPT !.pc = "save_write"]
         ELSE LET url == captured_urls[console.i]
              IN  IF url \notin console.existing_urls
                  THEN [console EXCEPT
                           !.doc[current_subject] =
                               Append(@, [name |-> Len(@) + 1, url |-> url]),
                           !.existing_urls = @ \cup {url},
                           !.i = @ + 1]
                  ELSE [console EXCEPT !.i = @ + 1]
    /\ UNCHANGED <<captured_urls, seen_urls, current_subject, lock,
                   MANIFEST_FILE, flow, progvars, call, ret>>

\* "json.dump(manifest, f, ...)" and the return of save_results
SaveWrite ==
    /\ console.pc = "save_write"
    /\ MANIFEST_FILE' = console.doc
    /\ console' = AtConsole(console.then, "prompt", console.subject)
    /\ UNCHANGED <<captured_urls, seen_urls, current_subject, lock, flow,
                   progvars, call, ret>>

\* "os._exit(0)": both threads end
Exit ==
    /\ console.pc = "exit"
    /\ console' = AtConsole("exited", "prompt", "")
    /\ UNCHANGED <<captured_urls, seen_urls, current_subject, lock,
                   MANIFEST_FILE, flow, progvars, call, ret>>

\* ------------------------------------------------------------ specification

Init ==
    /\ manifest \in Manifests
    /\ files = [p \in PathsOf(manifest) |-> NoFile]
    /\ FAILED_LOG = NoLog
    /\ runs = 0
    /\ ledger_writes = 0
    /\ phase = "idle"
    /\ args = [retry |-> FALSE, parallel |-> 1, downloader |-> "ffmpeg",
               all |-> TRUE, tool |-> "any"]
    /\ retry_map = << >>
    /\ subjects_to_process = << >>
    /\ subject = ""
    /\ retry_only = << >>
    /\ task = << >>
    /\ success_count = 0
    /\ fail_count = 0
    /\ total_success = 0
    /\ total_fail = 0
    /\ total_fetches = 0
    /\ failed_downloads = << >>
    /\ failed_downloads_lock = 0
    /\ prev_clean = FALSE
    /\ call = NoApply
    /\ ret = NoReturn
    /\ captured_urls = << >>
    /\ seen_urls = {}
    /\ current_subject = "General"
    /\ lock = FALSE
    /\ MANIFEST_FILE = EmptyDoc
    /\ flow = IdleFlow
    /\ console = AtConsole("ask_subject", "prompt", "")

Next ==
    \/ RunStart
    \/ BeginSubject
    \/ \E k \in DOMAIN task : Start(k)
    \/ \E k \in DOMAIN task : ToolReturns(k)
    \/ \E k \in DOMAIN task : RetryAfter429(k)
    \/ \E k \in DOMAIN task : Reencode(k)
    \/ \E k \in DOMAIN task : Acquire(k)
    \/ \E k \in DOMAIN task : AppendFailure(k)
    \/ \E k \in DOMAIN task : Finish(k)
    \/ \E k \in DOMAIN task : Collect(k)
    \/ \E k \in DOMAIN task : Crash(k)
    \/ EndSubject
    \/ EndRun
    \/ OperatorEdit
    \/ ManifestEdit

Spec == Init /\ [][Next]_vars

\* the helper functions called on their own, on every input of the bounded
\* sets, with the program at rest
InitFn == manifest = ManifestOne /\ Init

NextFn ==
    \/ ApplyTrimUrl
    \/ ApplyTrimUrlTwice
    \/ ApplyExtractDuration
    \/ ApplyValidateVideo
    \/ ApplyPostDownloadCheck
    \/ ApplyTimeoutSeconds
    \/ ApplyFragments

SpecFn == InitFn /\ [][NextFn]_vars

\* the capture tool on its own, the downloader at rest
InitCapture == manifest = ManifestOne /\ Init

NextCapture ==
    \/ Request
    \/ RequestTest
    \/ RequestAdd
    \/ RequestAppend
    \/ AskSubject
    \/ CmdSubject
    \/ SwitchSubject
    \/ CmdClear
    \/ ResetCaptured
    \/ ResetSeen
    \/ CmdSave
    \/ CmdQuit
    \/ SaveBegin
    \/ SaveLoop
    \/ SaveWrite
    \/ Exit

SpecCapture == InitCapture /\ [][NextCapture]_vars

\* ------------------------------------------------------------------ claims

Tasks == DOMAIN task

Returned(k) == task[k].pc \in {"ret", "done"}

\* the item of task k has a URL: neither empty nor the placeholder sentinel
Usable(k) == task[k].video.url \notin {<< >>, <<PLACEHOLDER>>}

\* the ledger records of this run for the item of task k
Records(k) ==
    {i \in DOMAIN failed_downloads :
        /\ failed_downloads[i].subject = subject
        /\ failed_downloads[i].name = task[k].video.name}

Counted == {k \in Tasks : task[k].pc = "done"}

Skipped == {k \in Counted : task[k].result = "None"}

\* each outcome collected so far has gone to exactly one of success_count,
\* fail_count or the skipped items
CountedOnce ==
    success_count + fail_count + Cardinality(Skipped) = Cardinality(Counted)

\* download_subject has returned for the collection at hand, or the program
\* has died inside it
CollectionOver == phase \in {"main", "ended", "crashed"} /\ task # << >>

\* C1: every item handed to download_subject is accounted for exactly once,
\* for any pool width and completion order: no item contributes to two
\* counters, and when the run of the collection is over success_count +
\* fail_count + the number of skipped items is the number of items dispatched.
C1_AccountedOnce ==
    /\ CountedOnce
    /\ CollectionOver =>
          /\ Counted = Tasks
          /\ success_count + fail_count + Cardinality(Skipped) = Len(task)

\* C2: no invocation of the item controller lets an error escape.
C2_NoErrorEscapes == \A k \in Tasks : task[k].pc # "raised"

\* C3: an item whose outcome is Failed has exactly one record in the
\* in-memory ledger, a skipped or succeeded item has none, and when the
\* collection is done the failures counted equal the records added for it.
C3_OneRecordPerFailure ==
    /\ \A k \in Tasks : Returned(k) =>
          /\ task[k].result = "False" => Cardinality(Records(k)) = 1
          /\ task[k].result \in {"None", "True"} => Records(k) = {}
    /\ (phase = "subject" /\ Counted = Tasks) =>
          fail_count = Cardinality(UNION {Records(k) : k \in Tasks})

\* the tool left a failed result: a non-zero exit, or exit 0 with a missing
\* or undersized file
FailedAttempt(o) ==
    \/ o.kind = "exit1"
    \/ o.kind = "exit0" /\ (o.out = NoFile \/ o.out < MIN_FILE_SIZE)

\* C4: after an attempt that ended with a non-zero exit, or with exit 0 and a
\* missing or undersized file, the destination file does not exist.
C4_NoPartialFile ==
    \A k \in Tasks :
        (task[k].pc \in {"sleep429", "sleepEsc", "lockwait", "locked", "delay", "ret"}
           /\ FailedAttempt(task[k].last))
        => files[Path(k)] = NoFile

\* the always rate limited tool was run for an item that had no file
RateLimitedRun(k) ==
    /\ args.tool = "rate"
    /\ Returned(k)
    /\ Usable(k)
    /\ task[k].found = NoFile

\* C5 as stated: the always rate limited tool is invoked exactly 2 times.
C5_TwoInvocations ==
    \A k \in Tasks : RateLimitedRun(k) =>
        /\ Len(task[k].calls) = 2
        /\ task[k].result = "False"
        /\ task[k].error = "rate"

\* C5 amended: the always rate limited tool is invoked exactly
\* 1 + MAX_RETRIES_ON_429 = 3 times in the same mode, with one cooldown sleep
\* before each of the MAX_RETRIES_ON_429 re-attempts, and the item then fails
\* with the rate-limited reason and one ledger record.
C5_ThreeInvocations ==
    \A k \in Tasks : RateLimitedRun(k) =>
        /\ Len(task[k].calls) = 1 + MAX_RETRIES_ON_429
        /\ \A i \in DOMAIN task[k].calls : task[k].calls[i] = task[k].calls[1]
        /\ task[k].sleeps = MAX_RETRIES_ON_429
        /\ task[k].result = "False"
        /\ task[k].error = "rate"
        /\ Cardinality(Records(k)) = 1
        /\ \A i \in Records(k) : failed_downloads[i].error = "rate"

C5_Witness ==
    \E k \in Tasks : RateLimitedRun(k) /\ task[k].pc = "ret"

\* ffmpeg was run with the tool that fails in copy mode and succeeds in
\* re-encode mode
EscalationRun(k) ==
    /\ args.tool = "copyfail"
    /\ args.downloader = "ffmpeg"
    /\ Returned(k)
    /\ task[k].calls # << >>

\* C6: when the copy attempt fails without a rate-limit or auth indicator
\* and the re-encode attempt succeeds, the item succeeds after exactly two
\* invocations, copy then re-encode, and no ledger record is appended.
C6_EscalationSucceeds ==
    \A k \in Tasks : EscalationRun(k) =>
        /\ task[k].calls = <<"copy", "reencode">>
        /\ task[k].result = "True"
        /\ Records(k) = {}
        /\ task[k].pc = "done" => (success_count >= 1 /\ fail_count = 0)

C6_Witness ==
    \E k \in Tasks : EscalationRun(k) /\ task[k].pc = "done"

\* a non-zero exit with an auth indicator and no rate-limit indicator
AuthOnly(o) == o.kind = "exit1" /\ HasAuth(o.ind) /\ ~HasRate(o.ind)

\* C7: after a non-zero exit with an auth indicator and no rate-limit
\* indicator the item fails at once: the controller neither sleeps for a
\* re-attempt nor runs the tool again, and the outcome is Failed with the
\* expired-URL reason.
C7_AuthFailsAtOnce ==
    \A k \in Tasks : AuthOnly(task[k].last) =>
        /\ task[k].pc \in {"lockwait", "locked", "delay", "ret", "done"}
        /\ task[k].error = "auth"
        /\ task[k].pc \in {"delay", "ret", "done"} =>
              /\ task[k].result = "False"
              /\ \E i \in Records(k) : failed_downloads[i].error = "auth"

C7_Witness ==
    \E k \in Tasks :
        /\ AuthOnly(task[k].last)
        /\ task[k].pc = "ret"
        /\ task[k].calls = <<"copy">>

\* outside retry mode the controller started on an item whose file exists
\* and exceeds the floor
ValidFileFound(k) ==
    /\ task[k].pc # "queued"
    /\ Usable(k)
    /\ retry_only = << >>
    /\ task[k].found # NoFile
    /\ task[k].found > MIN_FILE_SIZE

C9_SecondRunAllSkipped ==
    (phase = "ended" /\ prev_clean /\ ~args.retry /\ args.all /\ args.tool = "ok")
    => (total_fetches = 0 /\ total_success = 0 /\ total_fail = 0)

\* C10: an item whose URL is empty or the placeholder is skipped: no tool
\* invocation, the destination file neither created nor deleted, no ledger
\* record, and it is counted neither as a success nor as a failure.
C10_NoUrlSkipped ==
    /\ \A k \in Tasks : (~Usable(k) /\ task[k].pc # "queued") =>
          /\ task[k].pc \in {"ret", "done"}
          /\ task[k].result = "None"
          /\ task[k].calls = << >>
          /\ files[Path(k)] = task[k].found
          /\ Records(k) = {}
    /\ success_count + fail_count
          <= Cardinality({k \in Counted : Usable(k)})

\* both kinds of unusable URL have been skipped and counted
C10_Witness ==
    /\ phase = "ended"
    /\ total_success = 1
    /\ \E k \in Tasks : task[k].pc = "done" /\ task[k].video.url = <<PLACEHOLDER>>
    /\ manifest = ManifestTwo

\* the controller of task k is over: it returned, or an error left it
Over(k) == task[k].pc \in {"ret", "done", "raised"}

\* C11: in retry mode an existing destination file is deleted before any
\* attempt and the existence shortcut never applies: every retried item with
\* a usable URL gets at least one tool invocation, whatever file was found.
C11_RetryAlwaysFetches ==
    \A k \in Tasks :
        (retry_only # << >> /\ Usable(k) /\ Over(k)) => task[k].calls # << >>

\* C12: after a run in which at least one item failed the ledger file exists
\* and holds a record for each item that failed in that run, and only those.
C12_LedgerHoldsFailures ==
    (phase = "ended" /\ total_fail > 0) =>
        /\ FAILED_LOG.exists
        /\ FAILED_LOG.failed = failed_downloads
        /\ Len(FAILED_LOG.failed) = total_fail

\* main leaves the loop over the collections and ends the run
RunEnds == phase = "main" /\ phase' = "ended"

\* C13: a retry run in which every retried item succeeds (no failure is
\* counted) ends with the ledger file deleted; a normal run with zero
\* failures leaves the ledger file as it was.
C13_RetryClearsLedger ==
    /\ []((phase = "ended" /\ args.retry /\ total_fail = 0) => ~FAILED_LOG.exists)
    /\ [][(RunEnds /\ ~args.retry /\ total_fail = 0) => FAILED_LOG' = FAILED_LOG]_vars

\* a retry run has fetched an item again, counted it as succeeded, counted no
\* failure and ended without ledger file
C13_Witness ==
    /\ phase = "ended"
    /\ args.retry
    /\ total_success >= 1
    /\ total_fail = 0
    /\ total_fetches >= 1
    /\ ~FAILED_LOG.exists

\* C14: the ledger file is deleted only at the end of a retry run whose
\* failure count is zero: by no step of a normal run, of a retry run with a
\* failure or of a run that returns early.
C14_OnlyCleanRetryDeletes ==
    [][(FAILED_LOG.exists /\ ~FAILED_LOG'.exists)
         => (RunEnds /\ args.retry /\ total_fail = 0)]_vars

\* a retry run has ended with a failure and the ledger file is still there,
\* holding the records of this run
C14_Witness ==
    /\ phase = "ended"
    /\ args.retry
    /\ total_fail > 0
    /\ FAILED_LOG.exists
    /\ FAILED_LOG.failed = failed_downloads

\* the "url" fields of the loaded ledger records that name the item of task k
LedgerUrls(k) ==
    {retry_map[i].url :
        i \in {j \in DOMAIN retry_map :
                 /\ retry_map[j].subject = subject
                 /\ retry_map[j].name = task[k].video.name}}

\* the URL the manifest gives for the item of task k
ManifestUrl(k) ==
    (CHOOSE v \in Range(manifest.videos[subject]) : v.name = task[k].video.name).url

\* C15: in a retry run every tool invocation for an item whose ledger record
\* carries a replacement URL is made with the trimmed replacement URL and not
\* with the manifest URL; for an item whose record has an empty URL it is made
\* with the trimmed manifest URL.  The manifest is the one the run has
\* loaded, so the run is looked at until it stops.
C15_ReplacementUrlWins ==
    (args.retry /\ phase \notin Stopped) =>
      \A k \in Tasks : task[k].calls # << >> =>
        /\ (Cardinality(LedgerUrls(k)) = 1 /\ << >> \notin LedgerUrls(k)) =>
              /\ \E u \in LedgerUrls(k) : task[k].url = trim_url(u)
              /\ task[k].url # trim_url(ManifestUrl(k))
        /\ LedgerUrls(k) = {<< >>} => task[k].url = trim_url(ManifestUrl(k))

\* a retried item has been fetched with the URL the operator pasted
C15_Witness ==
    \E k \in Tasks :
        /\ args.retry
        /\ LedgerUrls(k) = {UrlC}
        /\ task[k].calls # << >>
        /\ task[k].url = trim_url(UrlC)
        /\ task[k].pc = "done"

\* the loaded ledger names the item of task k
NamedInLedger(k) ==
    \E i \in DOMAIN retry_map :
        /\ retry_map[i].subject = subject
        /\ retry_map[i].name = task[k].video.name

\* C16: in a retry run only items named in the loaded ledger are dispatched,
\* each at most once however often the ledger names it; only they are
\* counted, and no destination file of another item is created or deleted.
C16_OnlyLedgerItemsRetried ==
    /\ [](args.retry =>
            /\ \A k \in Tasks : NamedInLedger(k)
            /\ \A j, k \in Tasks :
                  task[j].video.name = task[k].video.name => j = k
            /\ success_count + fail_count <= Len(task))
    /\ [][(args.retry /\ phase = "subject") =>
            \A p \in DOMAIN files :
                files'[p] # files[p] =>
                    \E k \in Tasks : Path(k) = p /\ NamedInLedger(k)]_vars

\* the ledger named one item of a collection twice and another not at all:
\* the retry run has fetched the first once and has ended
C16_Witness ==
    /\ phase = "ended"
    /\ args.retry
    /\ manifest = ManifestTwo
    /\ ~NamedOnce(retry_map)
    /\ Len(task) = 1
    /\ task[1].calls # << >>
    /\ total_success + total_fail = 1

\* the workers inside "with failed_downloads_lock:"
InCritical == {k \in Tasks : task[k].pc = "locked"}

\* the worker of task k has left the critical section
Appended(k) == task[k].error # "" /\ task[k].pc \in {"delay", "ret", "done"}

\* C17: at most one worker is inside the append critical section, the
\* in-memory ledger grows only by the record of the worker inside it, and it
\* holds exactly one record for every worker that has appended and none for a
\* worker still waiting: no append is lost or duplicated.
C17_AppendsExclusive ==
    /\ [](/\ Cardinality(InCritical) <= 1
          /\ (failed_downloads_lock = 0) = (InCritical = {})
          /\ \A k \in Tasks :
                /\ Appended(k) => Cardinality(Records(k)) = 1
                /\ task[k].pc \in {"lockwait", "locked"} => Records(k) = {})
    /\ [][failed_downloads' # failed_downloads =>
            \/ failed_downloads' = << >>
            \/ \E k \in InCritical :
                 failed_downloads' =
                    Append(failed_downloads,
                           FailureRecord(subject, task[k].video.name,
                                         task[k].error))]_vars

\* one worker is inside the critical section while another waits for the lock
C17_Witness ==
    /\ args.parallel > 1
    /\ \E j, k \in Tasks :
          /\ task[j].pc = "locked"
          /\ task[k].pc = "lockwait"
          /\ failed_downloads_lock = j

\* C18: with one worker the controller of an item starts only after the
\* controllers of all items before it have returned, so at most one item is
\* in flight; with W workers at most W controllers are in flight.
C18_AtMostWInFlight ==
    /\ Cardinality(InFlight) <= args.parallel
    /\ args.parallel = 1 =>
          \A i, j \in Tasks :
              (i < j /\ task[j].pc # "queued") => Returned(i)

\* two workers are busy and a third item waits for a free worker
C18_Witness ==
    /\ args.parallel = 2
    /\ Cardinality(InFlight) = 2
    /\ \E k \in Tasks : task[k].pc = "queued"

\* C19: after a tool invocation that exceeded its timeout the destination
\* file is gone, the failure is recorded once with the timeout reason, and
\* the tool is not run again for the item.
C19_TimeoutCleansUp ==
    \A k \in Tasks : task[k].last.kind = "timeout" =>
        /\ files[Path(k)] = NoFile
        /\ task[k].pc \in {"lockwait", "locked", "delay", "ret", "done"}
        /\ task[k].error = "timeout"
        /\ task[k].pc \in {"delay", "ret", "done"} =>
              /\ task[k].result = "False"
              /\ Cardinality(Records(k)) = 1

\* C20: once the tool was found missing for an item, no later item of the
\* run is attempted (sequential run).
C20_MissingToolAborts ==
    args.parallel = 1 =>
        \A i, j \in Tasks :
            (i < j /\ task[i].last.kind = "notfound") => task[j].calls = << >>

\* the last tool invocation for the item of task k ended in an item-scoped
\* failure (non-zero exit, invalid output, timeout, tool error) and the item
\* did not succeed
ItemFailed(k) ==
    /\ \/ task[k].last.kind \in {"exit1", "timeout", "error"}
       \/ FailedAttempt(task[k].last)
    /\ task[k].pc \in {"ret", "done", "raised"}
    /\ task[k].result # "True"

\* C21: an item-scoped failure never stops the run: when the program has
\* stopped after item i failed, every later item of the collection has its
\* outcome and no collection is left unvisited.
C21_FailureNeverStopsRun ==
    \A k \in Tasks :
        (phase \in {"ended", "crashed"} /\ ItemFailed(k)) =>
            /\ \A j \in Tasks : j > k => task[j].pc = "done"
            /\ subjects_to_process = << >>

\* C26: an item whose destination did not exist when the controller started
\* and whose every tool invocation exited non-zero (each other outcome ends
\* the controller, so the last one did) is Failed, never Succeeded.
C26_NoSuccessWithoutFetch ==
    \A k \in Tasks :
        (Returned(k) /\ task[k].found = NoFile /\ task[k].last.kind = "exit1")
        => task[k].result = "False"

\* C29: a file the post-download check accepts (its size is not below the
\* floor) is accepted by the existing-file shortcut of a later normal run: no
\* tool invocation, the file left as it was, also at exactly MIN_FILE_SIZE.
C29_ChecksAgree ==
    \A k \in Tasks :
        (/\ retry_only = << >>
         /\ Usable(k)
         /\ task[k].pc # "queued"
         /\ task[k].found # NoFile
         /\ ~(task[k].found < MIN_FILE_SIZE))
        => (task[k].calls = << >> /\ files[Path(k)] = task[k].found)

\* the mode of the last tool invocation for task k
LastMode(k) == task[k].calls[Len(task[k].calls)]

\* the downloader of task k leaves the sleep it was in
Wakes(k, sleep) == task[k].pc = sleep /\ task'[k].pc # sleep

\* C27: a re-attempt after a rate-limit indicator follows one cooldown sleep,
\* is made in the mode of the attempt that was rate limited and with the
\* retry counter one higher; the escalation to re-encode mode sets the counter
\* to zero; no tool invocation but the first is made without a sleep before it.
C27_RetrySameMode ==
    [][(phase = "subject" /\ phase' = "subject") =>
        \A k \in Tasks :
            /\ Wakes(k, "sleep429") =>
                  /\ task'[k].retry_count = task[k].retry_count + 1
                  /\ task'[k].use_reencode = task[k].use_reencode
                  /\ task'[k].sleeps = task[k].sleeps
                  /\ task'[k].pc = "run" =>
                        task'[k].calls = Append(task[k].calls, LastMode(k))
            /\ Wakes(k, "sleepEsc") =>
                  /\ task'[k].retry_count = 0
                  /\ task'[k].use_reencode
                  /\ task'[k].pc = "run" =>
                        task'[k].calls = Append(task[k].calls, "reencode")
            /\ (task[k].calls # << >> /\ task'[k].calls # task[k].calls) =>
                  task[k].pc \in {"sleep429", "sleepEsc"}
            /\ (task[k].pc # "sleep429" /\ task'[k].pc = "sleep429") =>
                  task'[k].sleeps = task[k].sleeps + 1]_vars

\* an item was rate limited in copy mode, failed there, and was rate limited
\* again in re-encode mode
C27_Witness ==
    \E k \in Tasks :
        /\ task[k].calls = <<"copy", "copy", "reencode", "reencode">>
        /\ task[k].retry_count = 1
        /\ task[k].sleeps = 2

\* the largest number of tool invocations for one item
Budget ==
    IF args.downloader = "ytdlp" THEN MAX_RETRIES_ON_429 + 1
    ELSE 2 * (MAX_RETRIES_ON_429 + 1)

PcRank(pc) ==
    CASE pc = "queued" -> 9
      [] pc = "run" -> 8
      [] pc \in {"sleep429", "sleepEsc"} -> 7
      [] pc = "lockwait" -> 6
      [] pc = "locked" -> 5
      [] pc = "delay" -> 4
      [] pc \in {"ret", "raised"} -> 3
      [] pc = "done" -> 1

\* what is left of the controller of task t: the invocations it may still
\* make, then its position
Rank(t) == 10 * (Budget - Len(t.calls)) + PcRank(t.pc)

InMode(k, mode) == {i \in DOMAIN task[k].calls : task[k].calls[i] = mode}

\* C28: the controller terminates: every step of it lowers a rank that is
\* never negative; no copy invocation follows a re-encode invocation, at most
\* MAX_RETRIES_ON_429 + 1 invocations are made per mode, and so at most
\* 2 * (MAX_RETRIES_ON_429 + 1) with ffmpeg and MAX_RETRIES_ON_429 + 1 with
\* yt-dlp.
C28_ControllerTerminates ==
    /\ [](\A k \in Tasks :
            /\ Len(task[k].calls) <= Budget
            /\ Rank(task[k]) >= 0
            /\ \A mode \in {"copy", "reencode", "ytdlp"} :
                  Cardinality(InMode(k, mode)) <= MAX_RETRIES_ON_429 + 1
            /\ \A i, j \in DOMAIN task[k].calls :
                  (i < j /\ task[k].calls[i] = "reencode")
                  => task[k].calls[j] = "reencode"
            /\ task[k].retry_count <= MAX_RETRIES_ON_429)
    /\ [][(phase = "subject" /\ phase' = "subject") =>
            \A k \in Tasks :
                task'[k] # task[k] => Rank(task'[k]) < Rank(task[k])]_vars

\* an item has used every invocation ffmpeg may get and its controller is over
C28_Witness ==
    \E k \in Tasks :
        /\ args.downloader = "ffmpeg"
        /\ Len(task[k].calls) = 2 * (MAX_RETRIES_ON_429 + 1)
        /\ task[k].pc = "done"

\* the items the loaded ledger names
LedgerItems == {<<retry_map[i].subject, retry_map[i].name>> : i \in DOMAIN retry_map}

\* C30: the ledger file is deleted at the end of a retry run only if every
\* item the loaded ledger names was attempted and succeeded in that run.
C30_ClearedOnlyWhenAllRetried ==
    [][(RunEnds /\ args.retry /\ FAILED_LOG.exists /\ ~FAILED_LOG'.exists)
         => total_success = Cardinality(LedgerItems)]_vars

IsPrefix(p, s) == Len(p) <= Len(s) /\ SubSeq(s, 1, Len(p)) = p

EndsWith(s, m) == Len(s) >= Len(m) /\ SubSeq(s, Len(s) - Len(m) + 1, Len(s)) = m

Contains(s, m) == \E n \in 0..Len(s) : EndsWith(SubSeq(s, 1, n), m)

\* the shortest prefix of url that ends with marker, url when there is none
UpToFirst(url, marker) ==
    LET ends == {n \in 0..Len(url) : EndsWith(SubSeq(url, 1, n), marker)}
    IN  IF ends = {} THEN url
        ELSE SubSeq(url, 1, CHOOSE n \in ends : \A m \in ends : n <= m)

FormatMarker == <<"&", "format=dash">>

AltMarker == <<"format=dash">>

TrimUrlCalled == call.fn \in {"trim_url", "trim_url twice"}

\* C22 as stated, the format marker being "&format=dash": the result is the
\* URL up to and including the first occurrence of the marker, the URL itself
\* when it does not contain the marker; it is a prefix of the URL, and
\* trimming twice gives the same as trimming once.
C22_SingleMarker ==
    TrimUrlCalled =>
        /\ ret.url = UpToFirst(call.url, FormatMarker)
        /\ IsPrefix(ret.url, call.url)

\* C22 amended: the result is the URL up to and including the first
\* occurrence of "&format=dash"; without one, up to and including the first
\* occurrence of "format=dash"; the URL itself when it contains neither.  It
\* is a prefix of the URL, and trimming twice gives the same as trimming once.
C22_TwoMarkers ==
    TrimUrlCalled =>
        /\ ret.url = IF Contains(call.url, FormatMarker)
                     THEN UpToFirst(call.url, FormatMarker)
                     ELSE UpToFirst(call.url, AltMarker)
        /\ IsPrefix(ret.url, call.url)

\* a URL with "format=dash" and no "&" before it has been trimmed twice
C22_Witness ==
    /\ call.fn = "trim_url twice"
    /\ call.url = <<"https://x/videomanifest?a=1", "format=dash", "&",
                   "https://x/videomanifest?a=1">>
    /\ ret.url = <<"https://x/videomanifest?a=1", "format=dash">>

\* a step of extract_duration_from_url fails on the URL: the key is not in
\* it, the value is not base64, the decoded text is not JSON, or the JSON
\* object lacks the duration field
StepFails(url) ==
    \/ ~url.marker
    \/ ~url.metadata.base64
    \/ ~url.metadata.json
    \/ url.metadata.doc.kind = "object" /\ url.metadata.doc.key # "Duration100Nano"

\* C23: extract_duration_from_url returns None whenever a step fails (key
\* missing, malformed base64, malformed JSON, duration field missing), and
\* d / 10,000,000 when every step succeeds with the field value d.
C23_NoneOnAnyFailure ==
    call.fn = "extract_duration_from_url" =>
        /\ StepFails(call.metadata_url) => ret.duration = NoDuration
        /\ (/\ ~StepFails(call.metadata_url)
            /\ call.metadata_url.metadata.doc.kind = "object"
            /\ call.metadata_url.metadata.doc.type = "number")
           => ret.duration =
                 call.metadata_url.metadata.doc.val \div 10000000

\* validate_video was called without a duration hint
NoHint == call.fn = "validate_video" /\ call.expected_duration = NoDuration

\* C24: without a duration hint validate_video finds a missing file invalid
\* before any size check, a file of 999,999 bytes invalid and a file of
\* 1,000,000 bytes valid: an existing file is valid exactly when its size is
\* not below MIN_FILE_SIZE.
C24_ValidatorFloor ==
    NoHint =>
        /\ call.filepath = NoFile =>
              (~ret.is_valid /\ ret.message = "File does not exist")
        /\ call.filepath = 999999 =>
              (~ret.is_valid /\ ret.message = "File too small")
        /\ call.filepath = 1000000 => ret.is_valid
        /\ call.filepath # NoFile =>
              (ret.is_valid <=> call.filepath >= MIN_FILE_SIZE)

C24_Witness ==
    /\ NoHint
    /\ call.filepath = 1000000
    /\ ret.is_valid

\* the file passes the size floor, a duration is expected, and the probed
\* duration differs from it by more than DURATION_TOLERANCE
Mismatch(c) ==
    /\ c.filepath # NoFile
    /\ c.filepath >= MIN_FILE_SIZE
    /\ truthy(c.expected_duration)
    /\ c.actual_duration # NoDuration
    /\ Abs(c.actual_duration - c.expected_duration) > DURATION_TOLERANCE

\* C25: on a duration mismatch beyond the tolerance validate_video still
\* finds the file valid, and the downloader still returns success and keeps
\* the file.
C25_MismatchNotRejected ==
    /\ (call.fn = "validate_video" /\ Mismatch(call)) => ret.is_valid
    /\ (call.fn = "post_download_check" /\ Mismatch(call)) =>
          (ret.success /\ ret.file = call.filepath)

\* the file passes the size floor, a duration is expected, and
\* get_video_duration returns None for the file
ProbeFails(c) ==
    /\ c.filepath # NoFile
    /\ c.filepath >= MIN_FILE_SIZE
    /\ truthy(c.expected_duration)
    /\ c.actual_duration = NoDuration

\* C32: when a duration is expected and the probe of the produced file fails,
\* validate_video finds the file invalid because its duration cannot be read,
\* and the downloader does not return success.
C32_ProbeFailureRejected ==
    /\ (call.fn = "validate_video" /\ ProbeFails(call)) =>
          (~ret.is_valid /\ ret.message = "Could not read video duration")
    /\ (call.fn = "post_download_check" /\ ProbeFails(call)) => ~ret.success

\* max(1800, floor(expectedDuration) + 600) for a duration in milliseconds
HintTimeout(ms) ==
    IF (ms \div 1000) + 600 > 1800 THEN (ms \div 1000) + 600 ELSE 1800

C36_FragmentsInRange ==
    (call.fn = "num_fragments" /\ ~ret.exits) => ret.num_fragments \in 1..16

\* -f 0 on the command line has become -N 1
C36_Witness ==
    /\ call.fn = "num_fragments"
    /\ call.fragments = [from |-> "command line", kind |-> "int", n |-> 0]
    /\ ~ret.exits
    /\ ret.num_fragments = 1

\* the name ends with the extension
HasExtension(name) == Len(name) > 0 /\ name[Len(name)] = ".mp4"

\* the tool of worker k is writing the destination file
Writing(k) == task[k].pc = "run"

\* C34: within one collection two items with distinct display names never
\* have the same destination path, so no two workers write the same file at
\* once; the destination name ends with the extension, and adding the
\* extension to it changes nothing.
C34_DistinctDestinations ==
    /\ \A i, j \in Tasks :
         task[i].video.name # task[j].video.name => Path(i) # Path(j)
    /\ \A i, j \in Tasks :
         (i # j /\ Writing(i) /\ Writing(j)) => Path(i) # Path(j)
    /\ \A k \in Tasks :
         /\ HasExtension(Path(k)[2])
         /\ with_mp4(Path(k)[2]) = Path(k)[2]

\* download_single_video has called the downloader for the item
FetchStage(t) == t.url # << >>

\* in this step download_single_video of worker k ends, by a return or by an
\* error that leaves it
WorkerEnds(k) ==
    /\ k \in DOMAIN task'
    /\ task[k].pc \notin {"ret", "raised", "done"}
    /\ task'[k].pc \in {"ret", "raised"}

\* C33: every item for which the controller reached the fetch stage, the
\* existing-file shortcut included, sleeps DELAY_BETWEEN_DOWNLOADS before its
\* worker ends, with one worker and with several; so the worker starts no
\* further item without that delay after the item's last fetch.
C33_DelayBeforeReturn ==
    [][\A k \in DOMAIN task :
         (WorkerEnds(k) /\ FetchStage(task'[k])) => task[k].pc = "delay"]_vars

\* C31: the ledger file is opened for writing at most once in a run, and only
\* when main has visited every collection and every worker has returned its
\* outcome, with nobody holding the lock of the in-memory ledger (the one
\* writer is main, after the workers); the program changes the file in no
\* other step but by removing it; and no record is appended to the in-memory
\* ledger once the file has been written.
C31_LedgerWrittenOnceAtEnd ==
    /\ [](ledger_writes <= 1)
    /\ [][ledger_writes' > ledger_writes =>
            /\ ledger_writes' = ledger_writes + 1
            /\ subjects_to_process = << >>
            /\ \A k \in DOMAIN task : task[k].pc = "done"
            /\ failed_downloads_lock = 0
            /\ phase = "main"]_vars
    /\ [][(phase \notin Stopped /\ FAILED_LOG' # FAILED_LOG) =>
            \/ ledger_writes' = ledger_writes + 1
            \/ ~FAILED_LOG'.exists]_vars
    /\ [][Len(failed_downloads') > Len(failed_downloads) =>
            ledger_writes = 0 /\ ledger_writes' = 0]_vars

\* a run over two collections with a pool of workers has ended and has written
\* the ledger, with a record of a worker of the first collection
C31_Witness ==
    /\ phase = "ended"
    /\ ledger_writes = 1
    /\ args.parallel > 1
    /\ Len(manifest.keys) > 1
    /\ FAILED_LOG.exists
    /\ FAILED_LOG.failed = failed_downloads
    /\ \E i \in DOMAIN failed_downloads :
         failed_downloads[i].subject = manifest.keys[1]

\* no element of s occurs at two positions
NoRepeat(s) == \A i, j \in DOMAIN s : s[i] = s[j] => i = j

\* the URLs of the records of a collection of the capture tool's manifest
RecordUrls(doc, subj) == [j \in DOMAIN doc[subj] |-> doc[subj][j].url]

\* C37: under every interleaving of the capture callback with the commands
\* that reset the list, no normalized URL occurs twice in captured_urls at any
\* moment, and no URL occurs twice in the records that save_results has
\* written for the current subject.
C37_CapturedWithoutDuplicates ==
    /\ NoRepeat([i \in DOMAIN captured_urls |->
                    capture_trim_url(captured_urls[i])])
    /\ NoRepeat(RecordUrls(MANIFEST_FILE, current_subject))

====
